---- MODULE Spec2Model ----
(***************************************************************************)
(* The processing coordinator of IOTA: ProcWindow of                       *)
(* components/iota_frames.py (run, process_images, onTimer, find_objects,  *)
(* populate_data_points, finish_process, onAbort, onResume, onMonitor,     *)
(* onFinishedImageFinder), together with its environment: the input        *)
(* source, the workers that write result objects into the object folder,   *)
(* the three liveness channels used to confirm an abort, and the wall      *)
(* clock read by the monitor-mode idle timeout.                            *)
(*                                                                         *)
(* Configuration modelled: cctbx.selection.select_only.flag_on = False     *)
(* (images are the work items) and image_conversion.convert_only = False.  *)
(* The input source only grows (files arrive, none is removed).            *)
(***************************************************************************)
EXTENDS Integers, Sequences, FiniteSets, TLC

\* ------------------------------------------------------------- bounds ---
MaxInput == 2      \* image files that ever exist in the input source
MaxClock == 5      \* last wall-clock instant at which a poll tick is taken
MaxStep == 2       \* largest gap between two consecutive poll ticks
MaxFinders == 1    \* image-finder threads in flight at one time
MaxAbort == 1      \* abort requests the user makes in one session
TimeoutLen == 2    \* gparams.advanced.monitor_mode_timeout_length
MaxDir == 4        \* highest run number among the folders that exist at first

\* Python's None for the optional numeric fields (timeout, timeout_start)
None == -1

Methods == {"multiprocessing", "lsf", "torq", "other"}

\* what a worker leaves in the object file of its item
Outcomes == {"ok", "fail", "imported", "corrupt"}

VARIABLES
  \* --- ProcWindow fields
  state, abort_initiated, run_aborted, monitor_mode, monitor_mode_timeout,
  timeout_start, find_new_images, start_object_finder, finished_objects,
  read_object_files, new_images, img_list, obj_counter, nref_list, res_list,
  final_objects, good_to_go, img_process, job_id, init_input_list,
  \* --- widgets: the poll timer and the three toolbar buttons
  timer, abort_enabled, resume_enabled, monitor_enabled, monitor_toggled,
  \* --- run configuration (gparams)
  mp_method, gp_monitor_mode, gp_monitor_timeout,
  \* --- filesystem
  tmp_abort_file, tmp_aborted_file, tmp_base, obj_files, input_list,
  \* --- backends and threads (queue: the pairs <<batch, work item>> that
  \* have been submitted and not yet processed)
  queue, thread_aborted, bjobs_listed, bkilled, finders,
  \* --- iota.process drivers run by the batch system: the batches (indices
  \* of submitted) whose driver is running, and those whose driver has
  \* written finish.cfg into tmp_base
  drivers, finish_cfg,
  \* --- wall clock
  clock,
  \* --- history of the run (what the handlers did)
  submitted, run_state, idle_from, n_abort,
  \* --- files the coordinator has written into the run folder (init.int_base)
  int_base,
  \* --- the event-driven ProcWindow of iota_gui_init: the results it has
  \* accepted, and the events posted to it by ProcThread and not yet handled
  objects_in_progress, events,
  \* --- the base folder of the runs (set_base_dir's path: whether it is a
  \* directory, and its sub-directories) and the run folder last chosen in it
  path, new_path

vars == <<state, abort_initiated, run_aborted, monitor_mode,
          monitor_mode_timeout, timeout_start, find_new_images,
          start_object_finder, finished_objects, read_object_files,
          new_images, img_list, obj_counter, nref_list, res_list,
          final_objects, good_to_go, img_process, job_id, init_input_list,
          timer, abort_enabled, resume_enabled, monitor_enabled,
          monitor_toggled, mp_method, gp_monitor_mode, gp_monitor_timeout,
          tmp_abort_file, tmp_aborted_file, tmp_base, obj_files, input_list,
          queue, thread_aborted, bjobs_listed, bkilled, finders, clock,
          submitted, run_state, idle_from, n_abort, int_base, drivers,
          finish_cfg, objects_in_progress, events, path, new_path>>

\* The whole state as one record, so that a handler is a function on it.
World ==
  [state |-> state, abort_initiated |-> abort_initiated,
   run_aborted |-> run_aborted, monitor_mode |-> monitor_mode,
   monitor_mode_timeout |-> monitor_mode_timeout,
   timeout_start |-> timeout_start, find_new_images |-> find_new_images,
   start_object_finder |-> start_object_finder,
   finished_objects |-> finished_objects,
   read_object_files |-> read_object_files, new_images |-> new_images,
   img_list |-> img_list, obj_counter |-> obj_counter,
   nref_list |-> nref_list, res_list |-> res_list,
   final_objects |-> final_objects, good_to_go |-> good_to_go,
   img_process |-> img_process, job_id |-> job_id,
   init_input_list |-> init_input_list, timer |-> timer,
   abort_enabled |-> abort_enabled, resume_enabled |-> resume_enabled,
   monitor_enabled |-> monitor_enabled, monitor_toggled |-> monitor_toggled,
   mp_method |-> mp_method, gp_monitor_mode |-> gp_monitor_mode,
   gp_monitor_timeout |-> gp_monitor_timeout,
   tmp_abort_file |-> tmp_abort_file, tmp_aborted_file |-> tmp_aborted_file,
   tmp_base |-> tmp_base, obj_files |-> obj_files, input_list |-> input_list,
   queue |-> queue, thread_aborted |-> thread_aborted,
   bjobs_listed |-> bjobs_listed, bkilled |-> bkilled, finders |-> finders,
   clock |-> clock, submitted |-> submitted, run_state |-> run_state,
   idle_from |-> idle_from, n_abort |-> n_abort, int_base |-> int_base,
   drivers |-> drivers, finish_cfg |-> finish_cfg,
   \* not a variable: how many times the handler being evaluated has carried
   \* out the end-of-run actions of finish_process
   finalizations |-> 0]

Install(w) ==
  /\ state' = w.state
  /\ abort_initiated' = w.abort_initiated
  /\ run_aborted' = w.run_aborted
  /\ monitor_mode' = w.monitor_mode
  /\ monitor_mode_timeout' = w.monitor_mode_timeout
  /\ timeout_start' = w.timeout_start
  /\ find_new_images' = w.find_new_images
  /\ start_object_finder' = w.start_object_finder
  /\ finished_objects' = w.finished_objects
  /\ read_object_files' = w.read_object_files
  /\ new_images' = w.new_images
  /\ img_list' = w.img_list
  /\ obj_counter' = w.obj_counter
  /\ nref_list' = w.nref_list
  /\ res_list' = w.res_list
  /\ final_objects' = w.final_objects
  /\ good_to_go' = w.good_to_go
  /\ img_process' = w.img_process
  /\ job_id' = w.job_id
  /\ init_input_list' = w.init_input_list
  /\ timer' = w.timer
  /\ abort_enabled' = w.abort_enabled
  /\ resume_enabled' = w.resume_enabled
  /\ monitor_enabled' = w.monitor_enabled
  /\ monitor_toggled' = w.monitor_toggled
  /\ mp_method' = w.mp_method
  /\ gp_monitor_mode' = w.gp_monitor_mode
  /\ gp_monitor_timeout' = w.gp_monitor_timeout
  /\ tmp_abort_file' = w.tmp_abort_file
  /\ tmp_aborted_file' = w.tmp_aborted_file
  /\ tmp_base' = w.tmp_base
  /\ obj_files' = w.obj_files
  /\ input_list' = w.input_list
  /\ queue' = w.queue
  /\ thread_aborted' = w.thread_aborted
  /\ bjobs_listed' = w.bjobs_listed
  /\ bkilled' = w.bkilled
  /\ finders' = w.finders
  /\ clock' = w.clock
  /\ submitted' = w.submitted
  /\ run_state' = w.run_state
  /\ idle_from' = w.idle_from
  /\ n_abort' = w.n_abort
  /\ int_base' = w.int_base
  /\ drivers' = w.drivers
  /\ finish_cfg' = w.finish_cfg
  /\ UNCHANGED <<objects_in_progress, events, path, new_path>>

\* ------------------------------------------------------------ helpers ---
Range(s) == {s[k] : k \in DOMAIN s}

Perms(S) == {s \in [1..Cardinality(S) -> S] : Range(s) = S}

Zeros(n) == [k \in 1..n |-> 0]

\* the k-th image file of the input source
Path(k) == 10 + k

\* [i, total, j] for i, j in enumerate(files, start)
Enumerate(files, start, total) ==
  [k \in 1..Len(files) |-> <<start + k - 1, total, files[k]>>]

ItemPaths(items) == [k \in DOMAIN items |-> items[k][3]]

\* the result object a worker writes for work item [i, total, j]
ObjFile(p) == 500 + p
Strong(p) == 100 + p
Res(p) == 200 + p

ResultObject(item, out) ==
  [obj_file |-> ObjFile(item[3]), img_index |-> item[1], raw_img |-> item[3],
   readable |-> out # "corrupt",
   status |-> IF out = "imported" THEN "imported" ELSE "final",
   fail |-> IF out = "fail" THEN "failed indexing" ELSE "None",
   strong |-> Strong(item[3]), res |-> Res(item[3])]

DiskNames(w) == {o.obj_file : o \in w.obj_files}
DiskObject(w, f) == CHOOSE o \in w.obj_files : o.obj_file = f

\* ------------------------------------------------------- ProcWindow ---
\* the tail of process_images: hand the iterable to the configured backend
Submit(w, iterable) ==
  IF w.mp_method = "multiprocessing" THEN
    [w EXCEPT !.img_process = "ProcThread", !.thread_aborted = FALSE,
              !.queue = @ \cup ({Len(w.submitted) + 1} \X Range(iterable)),
              !.submitted = Append(@, iterable),
              !.run_state = "Dispatching"]
  ELSE IF w.mp_method = "lsf" THEN
    [w EXCEPT !.img_process = "None", !.job_id = "J",
              !.int_base = @ \cup {"iter.cfg", "init.cfg"},
              !.bjobs_listed = TRUE, !.bkilled = FALSE,
              !.drivers = @ \cup {Len(w.submitted) + 1},
              !.queue = @ \cup ({Len(w.submitted) + 1} \X Range(iterable)),
              !.submitted = Append(@, iterable),
              !.run_state = "Dispatching"]
  ELSE IF w.mp_method = "torq" THEN
    [w EXCEPT !.img_process = "None", !.job_id = "None",
              !.int_base = @ \cup {"iter.cfg", "init.cfg"},
              !.drivers = @ \cup {Len(w.submitted) + 1},
              !.queue = @ \cup ({Len(w.submitted) + 1} \X Range(iterable)),
              !.submitted = Append(@, iterable),
              !.run_state = "Dispatching"]
  ELSE
    \* command is None: "IOTA ERROR: COMMAND NOT ISSUED!" and return; the
    \* caller goes on as after a submission
    [w EXCEPT !.img_process = "None", !.job_id = "None",
              !.int_base = @ \cup {"iter.cfg", "init.cfg"},
              !.run_state = "Dispatching"]

\* process_images as it would be if an extension assigned img_list instead
\* of extending it
process_imagesAssigns(w) ==
  IF w.state = "new images" THEN
    Submit([w EXCEPT !.img_list = w.new_images,
                     !.new_images = <<>>,
                     !.nref_list = @ \o Zeros(Len(w.new_images)),
                     !.res_list = @ \o Zeros(Len(w.new_images))],
           w.new_images)
  ELSE IF w.state = "resume" THEN
    Submit([w EXCEPT !.img_list = @ \o w.new_images,
                     !.new_images = <<>>,
                     !.start_object_finder = TRUE],
           w.new_images)
  ELSE
    LET il == Enumerate(w.init_input_list, 1, Len(w.init_input_list) + 1)
    IN Submit([w EXCEPT !.img_list = il,
                        !.nref_list = Zeros(Len(il)),
                        !.res_list = Zeros(Len(il))],
              il)

process_images(w) ==
  IF w.state = "new images" THEN
    Submit([w EXCEPT !.img_list = @ \o w.new_images,
                     !.new_images = <<>>,
                     !.nref_list = @ \o Zeros(Len(w.new_images)),
                     !.res_list = @ \o Zeros(Len(w.new_images))],
           w.new_images)
  ELSE IF w.state = "resume" THEN
    Submit([w EXCEPT !.img_list = @ \o w.new_images,
                     !.new_images = <<>>,
                     !.start_object_finder = TRUE],
           w.new_images)
  ELSE
    LET il == Enumerate(w.init_input_list, 1, Len(w.init_input_list) + 1)
    IN Submit([w EXCEPT !.img_list = il,
                        !.nref_list = Zeros(Len(il)),
                        !.res_list = Zeros(Len(il))],
              il)

\* nref_list[obj.img_index - 1] = ...; an index outside the list raises and
\* the except clause skips the object
RECURSIVE populate_data_points(_, _)
populate_data_points(w, objects) ==
  IF objects = <<>> THEN w
  ELSE LET obj == Head(objects)
           w1 == IF obj.img_index \in 1..Len(w.nref_list)
                 THEN [w EXCEPT !.nref_list[obj.img_index] = obj.strong,
                                !.res_list[obj.img_index] =
                                   IF obj.img_index \in 1..Len(w.res_list)
                                   THEN obj.res ELSE @]
                 ELSE w
       IN populate_data_points(w1, Tail(objects))

\* object = ep.load(filepath), None when loading raises
read_object_file(w, f) ==
  LET o == DiskObject(w, f) IN IF o.readable THEN <<o>> ELSE <<>>

\* NewObjectFiles as it would be if the scan forgot what it has read
NewObjectFilesAll(w) == DiskNames(w)

\* object files in the object folder not yet in read_object_files, listed in
\* the order given (list(set(..) - set(..)) has no fixed order)
NewObjectFiles(w) == DiskNames(w) \ Range(w.read_object_files)

RECURSIVE FlattenRead(_, _)
FlattenRead(w, files) ==
  IF files = <<>> THEN <<>>
  ELSE read_object_file(w, Head(files)) \o FlattenRead(w, Tail(files))

IsFinal(o) == o.status = "final"

Terminal(w) == w.state \in {"finished", "aborted", "unknown"}

\* Extend as it would be if the scan assigned instead of extending
ExtendReplaces(objects, new_finished_objects) == new_finished_objects

\* self.finished_objects.extend(new_finished_objects)
Extend(objects, new_finished_objects) == objects \o new_finished_objects

RECURSIVE finish_process(_, _)
RECURSIVE find_objects(_, _)

find_objects(w, order) ==
  LET new_object_files ==
        SelectSeq(order, LAMBDA f : f \in NewObjectFiles(w))
      new_objects == FlattenRead(w, new_object_files)
      new_finished_objects == SelectSeq(new_objects, IsFinal)
      fo == Extend(w.finished_objects, new_finished_objects)
      w1 == [w EXCEPT !.finished_objects = fo,
                      !.read_object_files =
                         [k \in DOMAIN fo |-> fo[k].obj_file]]
      w2 == populate_data_points(w1, new_finished_objects)
  IN IF Terminal(w2) THEN
       IF w2.finished_objects # <<>> THEN finish_process(w2, order) ELSE w2
     ELSE [w2 EXCEPT !.start_object_finder = TRUE]

\* analyze_results: summary of the run; it ends by stopping the timer
analyze_results(w) == [w EXCEPT !.timer = FALSE]

finish_process(w, order) ==
  LET w0 == [w EXCEPT !.timer = FALSE] IN
  IF Terminal(w0) THEN
    LET w1 == [w0 EXCEPT !.abort_enabled = FALSE, !.monitor_enabled = FALSE,
                         !.monitor_toggled = FALSE]
        w2 == IF w1.finished_objects = <<>>
              THEN find_objects(w1, order) ELSE w1
        w3 == populate_data_points(w2, w2.finished_objects)
    IN IF w3.state = "finished" THEN
         analyze_results(
           [w3 EXCEPT !.final_objects =
                         SelectSeq(w3.finished_objects,
                                   LAMBDA o : o.fail = "None"),
                      !.run_state = "Finished",
                      !.finalizations = @ + 1])
       ELSE
         [w3 EXCEPT !.resume_enabled = IF "init.cfg" \in w3.int_base
                                        THEN TRUE ELSE @,
                    !.run_state = "Aborted",
                    !.finalizations = @ + 1]
  ELSE IF w0.run_aborted THEN
    [w0 EXCEPT !.resume_enabled = TRUE,
               !.tmp_base = FALSE, !.finish_cfg = {},
               !.run_state = "Aborted",
               !.finalizations = @ + 1]
  ELSE
    LET fin == SelectSeq(w0.finished_objects, LAMBDA o : o.fail = "None")
        w1 == [w0 EXCEPT !.final_objects = fin,
                         !.abort_enabled = FALSE,
                         !.monitor_enabled = FALSE,
                         !.monitor_toggled = FALSE,
                         !.tmp_base = FALSE, !.finish_cfg = {},
                         !.run_state = "Finished",
                         !.finalizations = @ + 1]
    IN IF Len(fin) > 0 THEN analyze_results(w1) ELSE w1

\* the liveness channel that confirms an abort: ProcThread.aborted for the
\* local pool, an empty bjobs listing for LSF, the .aborted.tmp file otherwise
\* (a file that nothing in the coordinator or in iota.process writes)
Liveness(w) ==
  IF w.img_process # "None" THEN w.thread_aborted
  ELSE IF w.mp_method = "lsf" THEN ~w.bjobs_listed
  ELSE w.tmp_aborted_file

\* AbortCheck as it would be if the tick trusted the abort request alone
AbortCheckUnconfirmed(w, order) ==
  IF w.abort_initiated
  THEN finish_process([w EXCEPT !.run_aborted = TRUE], order)
  ELSE [w EXCEPT !.run_aborted = FALSE]

\* onTimer, first block: confirm a requested abort
AbortCheck(w, order) ==
  IF w.abort_initiated THEN
    LET w1 == [w EXCEPT !.run_aborted = Liveness(w)]
    IN IF w1.run_aborted THEN finish_process(w1, order) ELSE w1
  ELSE [w EXCEPT !.run_aborted = FALSE]

\* onTimer, second block: find processed image objects
Harvest(w, order) ==
  IF w.start_object_finder
  THEN find_objects([w EXCEPT !.start_object_finder = FALSE], order)
  ELSE w

\* Count as it would be if the tick never updated obj_counter
CountStale(w) == w

\* Count as it would be if only successes were counted
CountSucceeded(w) ==
  [w EXCEPT !.obj_counter =
     Len(SelectSeq(w.finished_objects, LAMBDA o : o.fail = "None"))]

\* onTimer, third block: obj_counter follows len(finished_objects)
Count(w) ==
  IF Len(w.finished_objects) > w.obj_counter
  THEN [w EXCEPT !.obj_counter = Len(w.finished_objects)]
  ELSE w

\* onTimer, fourth block: start an ImageFinderThread on img_list + new_images
StartFinder(w) ==
  IF w.find_new_images
  THEN [w EXCEPT !.find_new_images = FALSE,
                 !.finders = Append(@, ItemPaths(w.img_list \o w.new_images))]
  ELSE w

\* a poll that sees every dispatched item harvested, monitor mode on and
\* nothing pending
EmptyPoll(w) ==
  /\ w.obj_counter >= Len(w.img_list)
  /\ w.monitor_mode
  /\ Len(w.new_images) = 0

\* AllLookedAt as it would be with the comparison off by one
AllLookedAtEarly(w) == w.obj_counter + 1 >= Len(w.img_list)

\* if self.obj_counter >= len(self.img_list)
AllLookedAt(w) == w.obj_counter >= Len(w.img_list)

\* TimedOut as it would be with a strict comparison
TimedOutStrict(w, now) == now - w.timeout_start > w.monitor_mode_timeout

\* interval = time.time() - self.timeout_start;
\* if interval >= self.monitor_mode_timeout
TimedOut(w, now) == now - w.timeout_start >= w.monitor_mode_timeout

\* Waiting as it would be if an idle poll did not ask for another search
WaitingNoRepoll(w) == w

\* no new images and no timeout: "No new images found! Waiting ..."
Waiting(w) == [w EXCEPT !.find_new_images = w.monitor_mode]

\* onTimer, last block: "Check if all images have been looked at".  The two
\* time.time() calls of the timeout branch are the only places where the
\* wall clock is read.
Completion(w, now, order) ==
  IF AllLookedAt(w) THEN
    IF w.monitor_mode THEN
      IF Len(w.new_images) > 0 THEN
        process_images([w EXCEPT !.timeout_start = None,
                                 !.state = "new images"])
      ELSE IF w.monitor_mode_timeout # None THEN
        IF w.timeout_start = None THEN
          [w EXCEPT !.timeout_start = now, !.clock = now]
        ELSE IF TimedOut(w, now) THEN
          finish_process([w EXCEPT !.clock = now], order)
        ELSE [w EXCEPT !.clock = now]
      ELSE Waiting(w)
    ELSE finish_process(w, order)
  ELSE w

\* the start of the current streak of consecutive empty polls taken with a
\* timeout configured (None when the last poll was not such a poll)
IdleFrom(w, now) ==
  IF EmptyPoll(w) /\ w.monitor_mode_timeout # None
  THEN IF w.idle_from = None THEN now ELSE w.idle_from
  ELSE None

onTimer(w, now, order) ==
  LET w1 == AbortCheck(w, order)
      w2 == Harvest(w1, order)
      w3 == Count(w2)
      w4 == StartFinder(w3)
      w5 == [w4 EXCEPT !.idle_from = IdleFrom(w4, now)]
  IN Completion(w5, now, order)

\* onAbort as it would be if an abort request dropped the harvested results
onAbortClears(w) ==
  [w EXCEPT !.tmp_abort_file = TRUE, !.abort_initiated = TRUE,
            !.abort_enabled = FALSE, !.finished_objects = <<>>,
            !.obj_counter = 0]

onAbort(w) ==
  LET w1 == IF w.mp_method = "lsf" THEN [w EXCEPT !.bkilled = TRUE] ELSE w
  IN [w1 EXCEPT !.tmp_abort_file = TRUE, !.abort_initiated = TRUE,
                !.abort_enabled = FALSE]

\* OldFileList as it would be if only successes counted as attempted
OldFileListSuccessesOnly(w) ==
  LET done == SelectSeq(w.finished_objects, LAMBDA o : o.fail = "None")
  IN [k \in DOMAIN done |-> done[k].raw_img]

\* old_file_list = [i.raw_img for i in self.finished_objects]
OldFileList(w) ==
  [k \in DOMAIN w.finished_objects |-> w.finished_objects[k].raw_img]

\* NewFileList as it would be without the filter on old_file_list
NewFileListAll(ext_file_list, old_file_list) == ext_file_list

\* new_file_list = [i for i in ext_file_list if i not in old_file_list]
NewFileList(ext_file_list, old_file_list) ==
  SelectSeq(ext_file_list, LAMBDA i : i \notin Range(old_file_list))

\* ProcessedImgList as it would be if img_list were reset to the empty list
ProcessedImgListEmpty(old_file_list, total) == <<>>

\* "Reset self.img_list to only processed images"
ProcessedImgList(old_file_list, total) == Enumerate(old_file_list, 1, total)

\* onResume as it would be if it left the Resume tool enabled
onResumeKeepsButton(w, order) ==
  LET w0 == [w EXCEPT
               !.tmp_abort_file = FALSE, !.tmp_aborted_file = FALSE,
               !.abort_initiated = FALSE, !.run_aborted = FALSE]
      ext_file_list == w0.input_list
      old_file_list == OldFileList(w0)
      new_file_list == NewFileList(ext_file_list, old_file_list)
      w1 == [w0 EXCEPT
               !.new_images = Enumerate(new_file_list,
                                        Len(old_file_list) + 1,
                                        Len(ext_file_list) + 1),
               !.img_list = ProcessedImgList(old_file_list,
                                             Len(ext_file_list) + 1)]
  IN IF Len(w1.new_images) = 0 THEN
       finish_process([w1 EXCEPT !.state = "finished"], order)
     ELSE
       [process_images([w1 EXCEPT !.abort_enabled = TRUE,
                                  !.monitor_enabled = TRUE,
                                  !.state = "resume"])
          EXCEPT !.timer = TRUE]

\* onResume as it would be if it left the abort signal in place
onResumeKeepsSignal(w, order) ==
  LET w0 == w
      ext_file_list == w0.input_list
      old_file_list == OldFileList(w0)
      new_file_list == NewFileList(ext_file_list, old_file_list)
      w1 == [w0 EXCEPT
               !.new_images = Enumerate(new_file_list,
                                        Len(old_file_list) + 1,
                                        Len(ext_file_list) + 1),
               !.img_list = ProcessedImgList(old_file_list,
                                             Len(ext_file_list) + 1)]
  IN IF Len(w1.new_images) = 0 THEN
       finish_process([w1 EXCEPT !.state = "finished"], order)
     ELSE
       [process_images([w1 EXCEPT !.abort_enabled = TRUE,
                                  !.resume_enabled = FALSE,
                                  !.monitor_enabled = TRUE,
                                  !.state = "resume"])
          EXCEPT !.timer = TRUE]

onResume(w, order) ==
  LET w0 == [w EXCEPT
               !.tmp_abort_file = FALSE, !.tmp_aborted_file = FALSE,
               !.abort_initiated = FALSE, !.run_aborted = FALSE]
      ext_file_list == w0.input_list
      old_file_list == OldFileList(w0)
      new_file_list == NewFileList(ext_file_list, old_file_list)
      w1 == [w0 EXCEPT
               !.new_images = Enumerate(new_file_list,
                                        Len(old_file_list) + 1,
                                        Len(ext_file_list) + 1),
               !.img_list = ProcessedImgList(old_file_list,
                                             Len(ext_file_list) + 1)]
  IN IF Len(w1.new_images) = 0 THEN
       finish_process([w1 EXCEPT !.state = "finished"], order)
     ELSE
       [process_images([w1 EXCEPT !.abort_enabled = TRUE,
                                  !.resume_enabled = FALSE,
                                  !.monitor_enabled = TRUE,
                                  !.state = "resume"])
          EXCEPT !.timer = TRUE]

\* the user has just switched the Monitor tool to the state "on"
onMonitor(w, on) ==
  LET w0 == [w EXCEPT !.monitor_toggled = on]
      w1 == IF on THEN
              [w0 EXCEPT !.monitor_mode = TRUE,
                         !.monitor_mode_timeout =
                            IF w0.gp_monitor_timeout THEN TimeoutLen ELSE @]
            ELSE
              [w0 EXCEPT !.monitor_mode = FALSE,
                         !.monitor_mode_timeout = None]
  IN [w1 EXCEPT !.find_new_images = w1.monitor_mode]

\* ImageFinderThread.run on the image list it was started with
FoundImages(w, image_list) ==
  LET ext_file_list == w.input_list
      new_file_list == SelectSeq(ext_file_list,
                                 LAMBDA i : i \notin Range(image_list))
  IN Enumerate(new_file_list, Len(image_list) + 1, Len(ext_file_list) + 1)

onFinishedImageFinder(w, new_img) ==
  [w EXCEPT !.new_images = @ \o new_img,
            !.find_new_images = w.monitor_mode]

\* recover: rebuild img_list from the init object of the run folder, take
\* the status the caller gives and go straight to finish_process
recover(w, status, order) ==
  LET il == Enumerate(w.init_input_list, 1, Len(w.init_input_list) + 1)
  IN finish_process([w EXCEPT !.img_list = il,
                              !.nref_list = Zeros(Len(il)),
                              !.res_list = Zeros(Len(il)),
                              !.state = status,
                              !.finished_objects = <<>>],
                    order)

\* InitAll.run up to the creation of the run folders: False when the input
\* enumeration is empty or the sanity check fails
InitAllRun(w, sane) == Len(w.input_list) > 0 /\ sane

\* run as it would be if a failed initialization still started the timer
runStartsTimer(w, good_init) ==
  IF good_init THEN
    [process_images([w EXCEPT !.init_input_list = w.input_list,
                               !.tmp_base = TRUE,
                               !.tmp_abort_file = FALSE,
                               !.tmp_aborted_file = FALSE])
       EXCEPT !.good_to_go = "yes", !.timer = TRUE,
              !.int_base = @ \cup {"init.cfg"}]
  ELSE [w EXCEPT !.good_to_go = "no", !.timer = TRUE]

run(w, good_init) ==
  IF good_init THEN
    [process_images([w EXCEPT !.init_input_list = w.input_list,
                               !.tmp_base = TRUE,
                               !.tmp_abort_file = FALSE,
                               !.tmp_aborted_file = FALSE])
       EXCEPT !.good_to_go = "yes", !.timer = TRUE,
              !.int_base = @ \cup {"init.cfg"}]
  ELSE [w EXCEPT !.good_to_go = "no"]

\* ----------------------------------------------------------- actions ---
InitWindow ==
  /\ mp_method \in Methods
  /\ gp_monitor_mode \in BOOLEAN
  /\ gp_monitor_timeout \in BOOLEAN
  /\ \E n \in 0..MaxInput : input_list = [k \in 1..n |-> Path(k)]
  /\ state = "process"
  /\ abort_initiated = FALSE
  /\ run_aborted = FALSE
  /\ monitor_mode = gp_monitor_mode
  /\ monitor_mode_timeout =
       IF gp_monitor_mode /\ gp_monitor_timeout THEN TimeoutLen ELSE None
  /\ timeout_start = None
  /\ find_new_images = FALSE
  /\ start_object_finder = TRUE
  /\ finished_objects = <<>>
  /\ read_object_files = <<>>
  /\ new_images = <<>>
  /\ img_list = <<>>
  /\ obj_counter = 0
  /\ nref_list = <<>>
  /\ res_list = <<>>
  /\ final_objects = <<>>
  /\ good_to_go = "unset"
  /\ img_process = "None"
  /\ job_id = "None"
  /\ init_input_list = <<>>
  /\ timer = FALSE
  /\ abort_enabled = TRUE
  /\ resume_enabled = FALSE
  /\ monitor_enabled = TRUE
  /\ monitor_toggled = gp_monitor_mode
  /\ tmp_abort_file = FALSE
  /\ tmp_aborted_file = FALSE
  /\ tmp_base = FALSE
  /\ obj_files = {}
  /\ queue = {}
  /\ thread_aborted = FALSE
  /\ bjobs_listed = FALSE
  /\ bkilled = FALSE
  /\ finders = <<>>
  /\ clock = 0
  /\ submitted = <<>>
  /\ run_state = "Init"
  /\ idle_from = None
  /\ n_abort = 0
  /\ int_base = {}
  /\ drivers = {}
  /\ finish_cfg = {}
  /\ objects_in_progress = <<>>
  /\ events = <<>>

\* a window whose base folder plays no part
NoFolder == [isdir |-> FALSE, listdir |-> {}]

Init ==
  /\ InitWindow
  /\ path = NoFolder
  /\ new_path = <<>>

Run ==
  /\ good_to_go = "unset"
  /\ \E sane \in BOOLEAN : Install(run(World, InitAllRun(World, sane)))

Tick ==
  /\ timer
  /\ find_new_images => Len(finders) < MaxFinders
  /\ \E d \in 1..MaxStep, order \in Perms(NewObjectFiles(World)) :
       LET w == onTimer(World, clock + d, order)
       IN w.clock <= MaxClock /\ Install(w)

Abort ==
  /\ good_to_go \in {"yes", "recovered"}
  /\ abort_enabled
  /\ n_abort < MaxAbort
  /\ Install([onAbort(World) EXCEPT !.n_abort = @ + 1])

Resume ==
  /\ resume_enabled
  /\ \E order \in Perms(NewObjectFiles(World)) :
       Install(onResume(World, order))

Monitor ==
  /\ good_to_go \in {"yes", "recovered"}
  /\ monitor_enabled
  /\ Install(onMonitor(World, ~monitor_toggled))

FinderDone ==
  \E k \in DOMAIN finders :
    Install(onFinishedImageFinder(
      [World EXCEPT !.finders = SubSeq(@, 1, k - 1) \o
                                SubSeq(@, k + 1, Len(@))],
      FoundImages(World, finders[k])))

\* a file arrives in the input source
AddInput ==
  /\ Len(input_list) < MaxInput
  /\ Install([World EXCEPT !.input_list = Append(@, Path(Len(@) + 1))])

\* a worker (of the local pool, or of the iota.process driver that the batch
\* system runs) takes an item of a submitted batch and writes its result
\* object; the driver never looks at the abort file
WorkerDone ==
  \E e \in queue, out \in Outcomes :
    LET obj == ResultObject(e[2], out) IN
    Install([World EXCEPT
      !.queue = @ \ {e},
      !.obj_files = {o \in @ : o.obj_file # obj.obj_file} \cup {obj}])

\* the local pool sees the abort file between two items and stops
PoolAborts ==
  /\ img_process # "None"
  /\ tmp_abort_file
  /\ ~thread_aborted
  /\ queue # {}
  /\ Install([World EXCEPT !.thread_aborted = TRUE, !.queue = {}])

\* BatchDrained as it would be if the driver did not wait for its workers
BatchDrainedNoWait(w, b) == TRUE

\* parallel_map has returned: every item of the driver's iterable has been
\* through full_proc_wrapper
BatchDrained(w, b) == \A e \in w.queue : e[1] # b

\* ProcessAll.run after parallel_map: write finish.cfg into tmp_base (open
\* raises when the coordinator has removed tmp_base) and leave; with the
\* last driver gone the LSF job name is no longer in the bjobs listing
DriverEnds ==
  \E b \in drivers :
    /\ BatchDrained(World, b)
    /\ Install([World EXCEPT
         !.drivers = @ \ {b},
         !.finish_cfg = IF tmp_base THEN @ \cup {b} ELSE @,
         !.bjobs_listed = IF mp_method = "lsf" THEN drivers # {b} ELSE @])

\* bkill has ended the LSF jobs: they leave the bjobs listing
LsfJobEnds ==
  /\ mp_method = "lsf"
  /\ bjobs_listed
  /\ bkilled
  /\ Install([World EXCEPT !.bjobs_listed = FALSE, !.queue = {},
                            !.drivers = {}])

Next ==
  \/ Run
  \/ Tick
  \/ Abort
  \/ Resume
  \/ Monitor
  \/ FinderDone
  \/ AddInput
  \/ WorkerDone
  \/ PoolAborts
  \/ LsfJobEnds
  \/ DriverEnds

Spec == Init /\ [][Next]_vars

\* A ProcWindow constructed to load an earlier run: the run folder holds the
\* init object with the input list of that run and the result objects its
\* workers wrote; more images may have arrived since
Snapshots(il) ==
  {S \in SUBSET {ResultObject(<<k, Len(il) + 1, il[k]>>, out) :
                   k \in DOMAIN il, out \in Outcomes} :
     \A o1, o2 \in S : o1.obj_file = o2.obj_file => o1 = o2}

RecoverInit ==
  /\ mp_method \in Methods
  /\ gp_monitor_mode \in BOOLEAN
  /\ gp_monitor_timeout \in BOOLEAN
  /\ \E n \in 1..MaxInput, m \in 1..MaxInput :
       /\ m <= n
       /\ input_list = [k \in 1..n |-> Path(k)]
       /\ init_input_list = [k \in 1..m |-> Path(k)]
  /\ obj_files \in Snapshots(init_input_list)
  /\ int_base = IF mp_method = "multiprocessing"
                THEN {"init.cfg"} ELSE {"init.cfg", "iter.cfg"}
  /\ tmp_base \in BOOLEAN
  /\ state = "process"
  /\ abort_initiated = FALSE
  /\ run_aborted = FALSE
  /\ monitor_mode = gp_monitor_mode
  /\ monitor_mode_timeout =
       IF gp_monitor_mode /\ gp_monitor_timeout THEN TimeoutLen ELSE None
  /\ timeout_start = None
  /\ find_new_images = FALSE
  /\ start_object_finder = TRUE
  /\ finished_objects = <<>>
  /\ read_object_files = <<>>
  /\ new_images = <<>>
  /\ img_list = <<>>
  /\ obj_counter = 0
  /\ nref_list = <<>>
  /\ res_list = <<>>
  /\ final_objects = <<>>
  /\ good_to_go = "unset"
  /\ img_process = "None"
  /\ job_id = "None"
  /\ timer = FALSE
  /\ abort_enabled = TRUE
  /\ resume_enabled = FALSE
  /\ monitor_enabled = TRUE
  /\ monitor_toggled = gp_monitor_mode
  /\ tmp_abort_file = FALSE
  /\ tmp_aborted_file = FALSE
  /\ queue = {}
  /\ thread_aborted = FALSE
  /\ bjobs_listed = FALSE
  /\ bkilled = FALSE
  /\ finders = <<>>
  /\ clock = 0
  /\ submitted = <<>>
  /\ run_state = "Init"
  /\ idle_from = None
  /\ n_abort = 0
  /\ drivers = {}
  /\ finish_cfg = {}
  /\ objects_in_progress = <<>>
  /\ events = <<>>
  /\ path = NoFolder
  /\ new_path = <<>>

\* the caller hands recover the status it read for the run
Recover ==
  /\ good_to_go = "unset"
  /\ \E status \in {"finished", "aborted", "unknown"},
        order \in Perms(NewObjectFiles(World)) :
       Install([recover(World, status, order)
                  EXCEPT !.good_to_go = "recovered"])

RecoverNext ==
  \/ Recover
  \/ Tick
  \/ Abort
  \/ Resume
  \/ Monitor
  \/ FinderDone
  \/ AddInput
  \/ WorkerDone
  \/ PoolAborts
  \/ LsfJobEnds
  \/ DriverEnds

RecoverSpec == RecoverInit /\ [][RecoverNext]_vars

\* the poll timer is started and a tick would change the state
TimerCanFire ==
  /\ timer
  /\ find_new_images => Len(finders) < MaxFinders
  /\ \E d \in 1..MaxStep, order \in Perms(NewObjectFiles(World)) :
       LET w == onTimer(World, clock + d, order)
       IN w.clock <= MaxClock /\ w # World

\* The poll timer fires every 5 s while it is started (self.timer.Start(5000)):
\* weak fairness of Tick, written out with its enabling condition
\* TimerCanFire, which is ENABLED <<Tick>>_vars.  A started image finder
\* thread posts its result: weak fairness of FinderDone.
LiveSpec ==
  /\ Spec
  /\ ([]<>(~TimerCanFire) \/ []<><<Tick>>_vars)
  /\ WF_vars(FinderDone)

\* ------------------------------------- iota_gui_init.ProcWindow (events) ---
\* The older coordinator is driven by events: ProcThread posts a OneDone
\* event from the callback of every work item and an AllDone event when
\* parallel_map has returned.  Its state is the part of the window below; the
\* results the pool has produced so far are kept in obj_files.
EvWorld ==
  [objects_in_progress |-> objects_in_progress, obj_counter |-> obj_counter,
   img_list |-> img_list, nref_list |-> nref_list, res_list |-> res_list,
   final_objects |-> final_objects, good_to_go |-> good_to_go,
   timer |-> timer, abort_enabled |-> abort_enabled,
   tmp_abort_file |-> tmp_abort_file, queue |-> queue, events |-> events,
   obj_files |-> obj_files, input_list |-> input_list,
   img_process |-> img_process, run_state |-> run_state]

EvInstall(w) ==
  /\ objects_in_progress' = w.objects_in_progress
  /\ obj_counter' = w.obj_counter
  /\ img_list' = w.img_list
  /\ nref_list' = w.nref_list
  /\ res_list' = w.res_list
  /\ final_objects' = w.final_objects
  /\ good_to_go' = w.good_to_go
  /\ timer' = w.timer
  /\ abort_enabled' = w.abort_enabled
  /\ tmp_abort_file' = w.tmp_abort_file
  /\ queue' = w.queue
  /\ events' = w.events
  /\ obj_files' = w.obj_files
  /\ input_list' = w.input_list
  /\ img_process' = w.img_process
  /\ run_state' = w.run_state
  /\ UNCHANGED <<state, abort_initiated, run_aborted, monitor_mode,
                 monitor_mode_timeout, timeout_start, find_new_images,
                 start_object_finder, finished_objects, read_object_files,
                 new_images, job_id, init_input_list, resume_enabled,
                 monitor_enabled, monitor_toggled, mp_method,
                 gp_monitor_mode, gp_monitor_timeout, tmp_aborted_file,
                 tmp_base, thread_aborted, bjobs_listed, bkilled, finders,
                 clock, submitted, idle_from, n_abort, int_base, drivers,
                 finish_cfg, path, new_path>>

\* outcomes of a work item whose result object reaches the window in memory
EvOutcomes == Outcomes \ {"corrupt"}

\* ProcWindow.process_images: enumerate the input and start ProcThread
Ev_process_images(w) ==
  LET il == Enumerate(w.input_list, 1, Len(w.input_list) + 1)
  IN [w EXCEPT !.img_list = il,
               !.nref_list = Zeros(Len(il)),
               !.res_list = Zeros(Len(il)),
               !.img_process = "ProcThread",
               !.queue = {1} \X Range(il),
               !.run_state = "Dispatching"]

\* ProcWindow.run
Ev_run(w, good_init) ==
  IF good_init THEN
    [Ev_process_images([w EXCEPT !.tmp_abort_file = FALSE])
       EXCEPT !.good_to_go = "yes", !.timer = TRUE]
  ELSE [w EXCEPT !.good_to_go = "no"]

Ev_onAbort(w) ==
  [w EXCEPT !.tmp_abort_file = TRUE, !.abort_enabled = FALSE]

Ev_onTimer(w) ==
  IF Len(w.objects_in_progress) > w.obj_counter
  THEN [w EXCEPT !.obj_counter = Len(w.objects_in_progress)]
  ELSE w

\* onFinishedOneTask as it would be without the test of the abort sentinel
onFinishedOneTaskUnguarded(w, obj) ==
  [w EXCEPT !.objects_in_progress = Append(@, obj),
            !.nref_list[obj.img_index] = obj.strong,
            !.res_list[obj.img_index] = obj.res]

onFinishedOneTask(w, obj) ==
  IF ~w.tmp_abort_file THEN
    [w EXCEPT !.objects_in_progress = Append(@, obj),
              !.nref_list[obj.img_index] = obj.strong,
              !.res_list[obj.img_index] = obj.res]
  ELSE w

onFinishedProcess(w, img_objects) ==
  IF w.tmp_abort_file THEN
    [w EXCEPT !.timer = FALSE, !.run_state = "Aborted"]
  ELSE
    [w EXCEPT !.final_objects =
                 SelectSeq(img_objects, LAMBDA o : o.fail = "None"),
              !.abort_enabled = FALSE,
              !.run_state = "Finished"]

\* the list parallel_map returns: one result per work item, in input order
PoolResults(w) ==
  [k \in DOMAIN w.img_list |->
     CHOOSE o \in w.obj_files : o.raw_img = w.img_list[k][3]]

EvInit ==
  /\ Init
  /\ mp_method = "multiprocessing"
  /\ ~gp_monitor_mode /\ ~gp_monitor_timeout

EvRun ==
  /\ good_to_go = "unset"
  /\ \E sane \in BOOLEAN :
       EvInstall(Ev_run(EvWorld, InitAllRun(EvWorld, sane)))

\* the user presses Abort
EvAbort ==
  /\ good_to_go = "yes" /\ abort_enabled
  /\ EvInstall(Ev_onAbort(EvWorld))

EvTick ==
  /\ timer
  /\ EvInstall(Ev_onTimer(EvWorld))

\* a worker of the pool finishes a work item; the callback posts OneDone
EvWorkerDone ==
  \E e \in queue, out \in EvOutcomes :
    LET obj == ResultObject(e[2], out)
    IN EvInstall([EvWorld EXCEPT
         !.queue = @ \ {e},
         !.obj_files = @ \cup {obj},
         !.events = Append(@, [type |-> "OneDone", value |-> <<obj>>])])

\* parallel_map has returned: ProcThread posts AllDone and ends
EvPoolDone ==
  /\ img_process = "ProcThread" /\ queue = {}
  /\ EvInstall([EvWorld EXCEPT
       !.img_process = "None",
       !.events = Append(@, [type |-> "AllDone",
                             value |-> PoolResults(EvWorld)])])

\* the main loop hands the oldest posted event to its handler
EvDeliver ==
  /\ events # <<>>
  /\ LET e == Head(events)
         w == [EvWorld EXCEPT !.events = Tail(@)]
     IN IF e.type = "OneDone"
        THEN EvInstall(onFinishedOneTask(w, e.value[1]))
        ELSE EvInstall(onFinishedProcess(w, e.value))

EvNext ==
  \/ EvRun \/ EvAbort \/ EvTick \/ EvWorkerDone \/ EvPoolDone \/ EvDeliver

EvSpec == EvInit /\ [][EvNext]_vars

\* ------------------------------------------------ run folder numbering ---
\* A folder name is a sequence of characters: 0..9 are the digits, larger
\* numbers stand for letters.
Format03d(n) == <<(n \div 100) % 10, (n \div 10) % 10, n % 10>>

\* check_dirname: int(subdirname) succeeds
check_dirname(subdirname) ==
  Len(subdirname) > 0 /\ \A i \in DOMAIN subdirname : subdirname[i] \in 0..9

\* the number a numeric name denotes
RECURSIVE IntValue(_)
IntValue(name) ==
  IF name = <<>> THEN 0
  ELSE 10 * IntValue(SubSeq(name, 1, Len(name) - 1)) + name[Len(name)]

set_base_dir(folder, sel_flag) ==
  IF folder.isdir THEN
    LET num_dirs == Cardinality({d \in folder.listdir : check_dirname(d)})
    IN IF sel_flag THEN Format03d(num_dirs) ELSE Format03d(num_dirs + 1)
  ELSE Format03d(1)

\* the sub-directories a base folder may hold at first: run folders 001 ..,
\* a folder named "1" and one with a name that is not a number
DirNames == {Format03d(k) : k \in 1..MaxDir} \cup {<<1>>, <<10, 11>>}

DirInit ==
  /\ InitWindow
  /\ mp_method = "multiprocessing"
  /\ ~gp_monitor_mode /\ ~gp_monitor_timeout
  /\ input_list = <<>>
  /\ \/ path = NoFolder
     \/ \E dirs \in SUBSET DirNames : path = [isdir |-> TRUE, listdir |-> dirs]
  /\ new_path = <<>>

\* InitAll.run chooses the folder of a new run and creates it; os.makedirs
\* raises OSError when the folder exists, and then nothing is created
NewRunDir ==
  /\ Cardinality({d \in path.listdir : check_dirname(d)}) <= MaxDir
  /\ new_path' = set_base_dir(path, FALSE)
  /\ path' = IF new_path' \in path.listdir THEN path
             ELSE [isdir |-> TRUE, listdir |-> path.listdir \cup {new_path'}]
  /\ UNCHANGED <<state, abort_initiated, run_aborted, monitor_mode,
                 monitor_mode_timeout, timeout_start, find_new_images,
                 start_object_finder, finished_objects, read_object_files,
                 new_images, img_list, obj_counter, nref_list, res_list,
                 final_objects, good_to_go, img_process, job_id,
                 init_input_list, timer, abort_enabled, resume_enabled,
                 monitor_enabled, monitor_toggled, mp_method,
                 gp_monitor_mode, gp_monitor_timeout, tmp_abort_file,
                 tmp_aborted_file, tmp_base, obj_files, input_list, queue,
                 thread_aborted, bjobs_listed, bkilled, finders, clock,
                 submitted, run_state, idle_from, n_abort, int_base, drivers,
                 finish_cfg, objects_in_progress, events>>

DirNext == NewRunDir

DirSpec == DirInit /\ [][DirNext]_vars

\* ------------------------------------------------------------ properties ---
\* the backend reports "terminated" to a poll made in the current state
ReportsTerminated == abort_initiated /\ Liveness(World)

\* C1: abort confirmation gating.  The run becomes Aborted (run_aborted set,
\* aborted branch of finish_process run: Resume enabled, poll timer stopped)
\* only in a poll tick whose liveness check reports "terminated"; a tick
\* whose check reports "still running" leaves it unconfirmed, and the tick
\* whose check reports "terminated" confirms it in that very tick.
AbortConfirmationGating ==
  [][/\ (run_aborted' /\ ~run_aborted) => (Tick /\ ReportsTerminated)
     /\ (resume_enabled' /\ ~resume_enabled) => (Tick /\ ReportsTerminated)
     /\ (run_state' = "Aborted" /\ run_state # "Aborted")
          => (Tick /\ ReportsTerminated)
     /\ (Tick /\ abort_initiated /\ ~Liveness(World))
          => (~run_aborted' /\ ~resume_enabled' /\ run_state' # "Aborted")
     /\ (Tick /\ ReportsTerminated)
          => (run_aborted' /\ resume_enabled' /\ ~timer')]_vars

\* an abort confirmed while part of the batch is still unharvested
AbortConfirmedWitness ==
  /\ run_aborted /\ abort_initiated /\ resume_enabled /\ ~timer
  /\ run_state = "Aborted"
  /\ Len(finished_objects) < Len(img_list)

HarvestedPaths == {finished_objects[k].raw_img : k \in DOMAIN finished_objects}

LastBatch(log) == log[Len(log)]

AllItems == Range(img_list) \cup Range(new_images)

\* C3: ordinals are unique within a run and stable across resume.  Every
\* harvested object is listed in image_list under the ordinal it was
\* dispatched with (its img_index), and no two different source paths of the
\* run (listed, pending or harvested) carry the same ordinal.
OrdinalsUniqueAndStable ==
  /\ \A k \in DOMAIN finished_objects :
        \E j \in DOMAIN img_list :
          /\ img_list[j][3] = finished_objects[k].raw_img
          /\ img_list[j][1] = finished_objects[k].img_index
  /\ \A a \in AllItems, b \in AllItems : a[1] = b[1] => a[3] = b[3]
  /\ \A a \in AllItems :
        \A k \in DOMAIN finished_objects :
          a[1] = finished_objects[k].img_index
            => a[3] = finished_objects[k].raw_img

\* C4: Finished is terminal.  No step taken in the state Finished submits a
\* batch or takes the run out of Finished.
FinishedIsTerminal ==
  [][run_state = "Finished"
       => (submitted' = submitted /\ run_state' = "Finished")]_vars

\* C5: Aborted is terminal unless the user resumes.  No step that ends with
\* the abort confirmed (the confirming tick itself, and every step after it
\* up to onResume, which clears run_aborted) submits a batch.
AbortedDispatchesNothing ==
  [][run_aborted' => submitted' = submitted]_vars

\* no file has arrived in the input source since the run was started
InputStatic == input_list = init_input_list

\* C6: idle-timeout correctness.  In monitor mode with a timeout configured,
\* no abort requested and an input source that never yields a new item, a
\* poll that finds everything harvested moves the run to Finished exactly
\* when the time elapsed since the first such poll is at least the timeout.
IdleTimeoutCorrect ==
  [][(Tick /\ ~abort_initiated /\ InputStatic /\ idle_from' # None)
       => /\ (run_state' = "Finished")
               <=> (clock' - idle_from' >= monitor_mode_timeout')
          /\ (run_state' = "Finished") => ~timer'
          /\ (run_state' # "Finished") => (timer' /\ run_state' = run_state)
    ]_vars

\* a run that idled for the whole timeout and was then finished by it
IdleTimeoutWitness ==
  /\ run_state = "Finished" /\ ~timer /\ monitor_mode /\ ~abort_initiated
  /\ InputStatic
  /\ idle_from # None /\ clock - idle_from >= TimeoutLen
  /\ timeout_start = idle_from

\* the tick extends the run with the pending new images
Extends == submitted' # submitted /\ state' = "new images"

\* the tick finishes the run through the idle timeout
FinishesByTimeout ==
  run_state' = "Finished" /\ run_state # "Finished" /\ monitor_mode'

\* C7: idle-timer reset.  A poll in the watching condition that finds pending
\* new items clears timeout_start and dispatches them, and the run finishes
\* by timeout only after a streak of consecutive empty polls that has lasted
\* at least the timeout.
IdleTimerReset ==
  [][Tick => /\ Extends => timeout_start' = None
             /\ FinishesByTimeout
                  => (idle_from' # None
                      /\ clock' - idle_from' >= monitor_mode_timeout')]_vars

Harvested(w) ==
  \A j \in DOMAIN w.img_list :
    \E k \in DOMAIN w.finished_objects :
      w.finished_objects[k].raw_img = w.img_list[j][3]

\* C8: completion rule.  With no abort requested a tick ends the dispatch
\* phase exactly when, after its harvest, harvested_count >= len(image_list):
\* without monitor mode it then finishes the run and stops the timer; with
\* monitor mode it extends the run or keeps watching, finishing only by the
\* idle timeout; a tick that finishes the run has every listed item harvested.
CompletionRule ==
  [][(Tick /\ ~abort_initiated) =>
       LET complete == obj_counter' >= Len(img_list)
       IN /\ obj_counter' = Len(finished_objects')
          /\ ~complete => (run_state' = run_state /\ timer'
                           /\ submitted' = submitted /\ img_list' = img_list)
          /\ (complete /\ ~monitor_mode)
               => (run_state' = "Finished" /\ ~timer'
                   /\ submitted' = submitted)
          /\ (complete /\ monitor_mode)
               => \/ Extends /\ new_images # <<>> /\ timer'
                  \/ /\ new_images = <<>> /\ submitted' = submitted
                     /\ IF run_state' = "Finished"
                        THEN /\ ~timer'
                             /\ timeout_start # None
                             /\ clock' - timeout_start >= monitor_mode_timeout
                        ELSE timer' /\ run_state' = run_state
          /\ run_state' = "Finished" => Harvested(World)']_vars

\* a run of two items finished by the completion rule without monitor mode
CompletionWitness ==
  /\ run_state = "Finished" /\ ~timer /\ ~monitor_mode /\ ~abort_initiated
  /\ n_abort = 0
  /\ Len(img_list) = 2 /\ obj_counter = 2

\* C9: completeness monotonicity.  No step (poll tick, abort, resume or any
\* other) makes len(finished_objects) or obj_counter smaller; the objects
\* already harvested stay where they are.
HarvestMonotonic ==
  [][/\ Len(finished_objects') >= Len(finished_objects)
     /\ obj_counter' >= obj_counter
     /\ SubSeq(finished_objects', 1, Len(finished_objects))
          = finished_objects]_vars

\* a resumed run that has harvested before and after the resume
MonotonicWitness ==
  /\ state = "resume" /\ n_abort = 1
  /\ Len(finished_objects) = 2 /\ obj_counter = 2
  /\ Len(submitted) = 2

\* result files a scan would newly fold: readable, final, not yet listed
NewFinal ==
  {o \in obj_files : /\ o.obj_file \notin Range(read_object_files)
                     /\ o.readable /\ o.status = "final"}

FoldedOrdinals ==
  {finished_objects[k].img_index : k \in DOMAIN finished_objects}

\* C10: no double-count.  A tick to which only result objects with already
\* folded ordinals are delivered leaves the harvested count, the successes
\* and the per-ordinal metrics as they were.
NoDoubleCount ==
  [][(Tick /\ NewFinal # {}
        /\ \A o \in NewFinal : o.img_index \in FoldedOrdinals)
       => /\ Len(finished_objects') = Len(finished_objects)
          /\ obj_counter' = obj_counter
          /\ nref_list' = nref_list
          /\ res_list' = res_list]_vars

\* C11: harvester idempotence.  In every reachable state, whatever the mix of
\* files in the object folder, a scan followed by a second scan with no file
\* written in between: the second scan adds nothing to finished_objects (nor
\* to the files read or the per-item metrics).
ScanIdempotent ==
  \A o1 \in Perms(NewObjectFiles(World)) :
    LET w1 == find_objects(World, o1)
    IN \A o2 \in Perms(NewObjectFiles(w1)) :
         LET w2 == find_objects(w1, o2)
         IN /\ w2.finished_objects = w1.finished_objects
            /\ w2.read_object_files = w1.read_object_files
            /\ w2.nref_list = w1.nref_list
            /\ w2.res_list = w1.res_list

\* a scan has harvested a Final result while the folder also holds a file it
\* will read again (not Final, or unreadable), and the next tick scans again
ScanTwiceWitness ==
  /\ finished_objects # <<>>
  /\ NewObjectFiles(World) # {}
  /\ \A o \in obj_files :
        o.obj_file \in NewObjectFiles(World) => (~o.readable \/ ~IsFinal(o))
  /\ timer /\ start_object_finder

\* C12: harvested <= dispatched.  In every reachable state the harvested
\* result objects are no more than the items of img_list, and each of them
\* belongs to an item of img_list (its image was dispatched and is listed),
\* also after a resume has rebuilt img_list and after monitor extensions.
HarvestedWithinDispatched ==
  /\ Len(finished_objects) <= Len(img_list)
  /\ obj_counter <= Len(img_list)
  /\ \A k \in DOMAIN finished_objects :
        /\ finished_objects[k].raw_img \in Range(ItemPaths(img_list))
        /\ \E b \in DOMAIN submitted :
             finished_objects[k].raw_img \in Range(ItemPaths(submitted[b]))

\* a resumed run whose second batch has been harvested completely
WithinDispatchedWitness ==
  /\ n_abort = 1 /\ Len(submitted) >= 2
  /\ \E b \in DOMAIN submitted : b > 1 /\ Len(submitted[b]) >= 1
  /\ state \in {"resume", "new images"}
  /\ Len(finished_objects) = Len(img_list)
  /\ Len(img_list) = MaxInput

\* result files in the object folder that fail to deserialize
Unreadable == {o \in obj_files : ~o.readable}

\* C13: a result file whose deserialization fails is skipped.  A tick that
\* scans the object folder does not fail on such a file, harvests the Final
\* results of the other files of the same scan, and later scans do not read
\* the failed file again.
UnreadableSkippedOnce ==
  [][(Tick /\ start_object_finder /\ Unreadable # {})
       => /\ \A o \in obj_files :
               (o.readable /\ IsFinal(o))
                 => o.obj_file \in Range(read_object_files')
          /\ \A o \in Unreadable :
               o.obj_file \notin NewObjectFiles(World)']_vars

\* the run was started and process_images submitted nothing: no submission
\* command exists for the configured backend
DispatchFailed == good_to_go = "yes" /\ submitted = <<>>

\* C14: dispatch error is terminal.  When the batch submission fails the run
\* is in a failed-dispatch terminal state: it is not polling and it is
\* neither a normally dispatched run nor Aborted.
DispatchErrorIsTerminal ==
  DispatchFailed => (~timer /\ run_state \notin {"Dispatching", "Aborted"})

\* the workers of the last batch have stopped: the pool thread reports
\* aborted, the LSF job has left the listing, the driver of any other backend
\* has run out of items
WorkersStopped ==
  IF img_process # "None" THEN thread_aborted
  ELSE IF mp_method = "lsf" THEN ~bjobs_listed
  ELSE queue = {}

\* C15: abort liveness.  After a user abort of a dispatched run, for every
\* backend, once the workers or the driver have stopped the coordinator
\* eventually confirms the abort and reaches Aborted, or Finished; it does
\* not stay in "Aborting..." forever.  (Runs that use up the modelled wall
\* clock are left out.)
AbortLiveness ==
  (abort_initiated /\ submitted # <<>> /\ WorkersStopped)
    ~> (run_state \in {"Aborted", "Finished"} \/ clock = MaxClock)

\* C16: cooperative abort in the external driver.  Once the abort sentinel
\* exists, the driver of an external-queue batch (iota.process) starts no
\* further work item.
DriverStopsOnSentinel ==
  [][(WorkerDone /\ mp_method # "multiprocessing") => ~tmp_abort_file]_vars

\* every file of the input source is the image of a harvested result
NothingLeft == Range(input_list) \subseteq HarvestedPaths

\* C17: resume with nothing left.  When onResume finds every item of the
\* re-enumerated input among the harvested results, the run goes directly to
\* Finished: no batch is dispatched and the poll timer is not restarted.
EmptyResumeFinishes ==
  [][(Resume /\ NothingLeft)
       => /\ run_state' = "Finished" /\ state' = "finished"
          /\ submitted' = submitted /\ queue' = queue
          /\ ~timer'
          /\ new_images' = <<>>]_vars

\* a run finished by a resume that found nothing left to process
EmptyResumeWitness ==
  /\ state = "finished" /\ run_state = "Finished" /\ ~timer
  /\ n_abort = 1 /\ ~abort_initiated
  /\ Len(submitted) = 1
  /\ NothingLeft

\* every worker of the dispatched items has written a readable Final result
\* object with fail = None, and no worker is still running
AllSucceeded ==
  /\ submitted # <<>> /\ queue = {}
  /\ \A k \in DOMAIN img_list :
       \E o \in obj_files :
         /\ o.raw_img = img_list[k][3]
         /\ o.readable /\ IsFinal(o) /\ o.fail = "None"

\* the run is Finished, complete, and every item is counted as a success
FinishedAllSucceeded ==
  /\ run_state = "Finished" /\ ~timer
  /\ obj_counter >= Len(img_list)
  /\ Len(final_objects) = Len(img_list)

\* C18: successful run completes.  Without monitor mode and with no abort,
\* once every worker of the one batch of N dispatched items has written a
\* readable result object with fail = None, the run eventually reaches
\* Finished with obj_counter >= len(img_list) and N successes (unless the user
\* then aborts or switches monitor mode on).
SuccessfulRunCompletes ==
  (run_state = "Dispatching" /\ AllSucceeded /\ Len(submitted) = 1
     /\ ~monitor_mode /\ ~abort_initiated /\ n_abort = 0)
    ~> (FinishedAllSucceeded \/ abort_initiated \/ monitor_mode)

\* a run of MaxInput items, never aborted, finished with every item a success
SuccessfulRunWitness ==
  /\ FinishedAllSucceeded /\ AllSucceeded
  /\ ~monitor_mode /\ n_abort = 0
  /\ Len(img_list) = MaxInput /\ Len(submitted) = 1

\* C19: snapshot on abort.  The step that takes the run into Aborted persists
\* a snapshot of the run (its state and the harvested result objects) in the
\* run's folder, for a later coordinator instance to reload.
AbortPersistsSnapshot ==
  [][(run_state' = "Aborted" /\ run_state # "Aborted")
       => int_base' # int_base]_vars

PendingGenuinelyNew ==
  /\ \A k \in DOMAIN new_images :
       new_images[k][3] \notin Range(ItemPaths(img_list))
  /\ \A j, k \in DOMAIN new_images :
       j # k => new_images[j][3] # new_images[k][3]

\* monitor mode without a timeout, no abort requested, nothing pending
WatchingNoTimeout ==
  /\ monitor_mode
  /\ monitor_mode_timeout = None
  /\ ~abort_initiated
  /\ new_images = <<>>
  /\ run_state = "Dispatching"

\* C22: watching without a timeout never finishes by itself: a tick taken in
\* monitor mode with no timeout, no abort requested and no new images found
\* leaves the run unfinished with the timer running, asks for another search
\* of the input source once every dispatched image is harvested, and the
\* following tick starts that search
WatchingNeverFinishes ==
  [][(Tick /\ WatchingNoTimeout)
       => /\ run_state' = "Dispatching"
          /\ timer'
          /\ new_images' = <<>>
          /\ obj_counter' >= Len(img_list') => find_new_images'
          /\ find_new_images =>
               finders' = Append(finders, ItemPaths(img_list))]_vars

WatchingWitness ==
  /\ WatchingNoTimeout
  /\ timer
  /\ obj_counter > 0
  /\ obj_counter = Len(img_list)
  /\ find_new_images
  /\ finders = <<>>
  /\ clock = 0

\* C23: the enumeration of an input source of n images gives work items with
\* the ordinals 1..n in input order, each carrying the total n
EnumerationContract ==
  (state = "process" /\ good_to_go = "yes")
    => /\ Len(img_list) = Len(init_input_list)
       /\ \A k \in DOMAIN img_list :
            /\ img_list[k][1] = k
            /\ img_list[k][3] = init_input_list[k]
            /\ img_list[k][2] = Len(img_list)

\* C24: out-of-order tolerance.  Whatever the order in which result objects
\* are harvested, the strong-spot count and the resolution of the item with
\* ordinal k stand at position k of nref_list and res_list
BucketedByOrdinal ==
  \A i \in DOMAIN img_list, k \in DOMAIN finished_objects :
    finished_objects[k].raw_img = img_list[i][3]
      => /\ img_list[i][1] \in DOMAIN nref_list
         /\ img_list[i][1] \in DOMAIN res_list
         /\ nref_list[img_list[i][1]] = finished_objects[k].strong
         /\ res_list[img_list[i][1]] = finished_objects[k].res

\* the step harvests a result object that records a failure
HarvestsFailure ==
  \E k \in DOMAIN finished_objects' :
    k > Len(finished_objects) /\ finished_objects'[k].fail # "None"

Succeeded(objects) == SelectSeq(objects, LAMBDA o : o.fail = "None")

\* C25: per-item failures are never fatal.  A tick that harvests a failed
\* result counts it in obj_counter and lets it count toward completion like
\* a success; it requests no abort and enters Aborted only if the user had
\* asked for it; it dispatches nothing but the pending new images; it stops
\* the timer only when the run is complete or an abort is pending; and the
\* successes never include a failed result
FailuresNeverFatal ==
  [][(Tick /\ HarvestsFailure)
       => /\ obj_counter' = Len(finished_objects')
          /\ abort_initiated' = abort_initiated
          /\ ~abort_initiated => run_state' # "Aborted"
          /\ submitted' # submitted
               => submitted' = Append(submitted, new_images)
          /\ ~timer' => \/ abort_initiated
                        \/ /\ run_state' = "Finished"
                           /\ obj_counter' >= Len(img_list')
          /\ (obj_counter' >= Len(img_list') /\ ~monitor_mode
                /\ ~abort_initiated)
               => /\ run_state' = "Finished"
                  /\ final_objects' = Succeeded(finished_objects')
          /\ \A k \in DOMAIN final_objects' :
               final_objects'[k].fail = "None"]_vars

\* a run finished with a failure and a success among its two results
FailureWitness ==
  /\ run_state = "Finished"
  /\ n_abort = 0
  /\ obj_counter = 2 /\ Len(img_list) = 2
  /\ Len(final_objects) = 1
  /\ \E k \in DOMAIN finished_objects : finished_objects[k].fail # "None"

HarvestedFiles(objects) == {objects[k].obj_file : k \in DOMAIN objects}

\* C26: every result object a worker writes is reported whatever its status.
\* A tick that scans the object folder harvests every readable result object
\* found there, Imported or Final, and counts it in obj_counter
ImportedIsHarvested ==
  [][(Tick /\ start_object_finder /\ ~abort_initiated)
       => /\ \A o \in obj_files :
               o.readable => o.obj_file \in HarvestedFiles(finished_objects')
          /\ obj_counter' >= Cardinality({o \in obj_files : o.readable})]_vars

RecoverDerivesState ==
  [][Recover => state' \in {"finished", "aborted"}]_vars

\* everything but the abort flag, the abort file, the Abort button and the
\* batch system's record of the kill
AllButAbortRequest ==
  <<state, run_aborted, monitor_mode, monitor_mode_timeout, timeout_start,
    find_new_images, start_object_finder, finished_objects,
    read_object_files, new_images, img_list, obj_counter, nref_list,
    res_list, final_objects, good_to_go, img_process, job_id,
    init_input_list, timer, resume_enabled, monitor_enabled,
    monitor_toggled, mp_method, gp_monitor_mode, gp_monitor_timeout,
    tmp_aborted_file, tmp_base, obj_files, input_list, queue,
    thread_aborted, bjobs_listed, finders, clock, submitted, run_state,
    idle_from, int_base, drivers, finish_cfg>>

\* C29: an abort request and its confirmation do not touch the aggregate.
\* onAbort changes the abort flag, the abort file and the Abort button only
\* (and has LSF kill the job); the aborted branch of finish_process, taken
\* by the tick that sees the abort confirmed, leaves finished_objects,
\* img_list, new_images and the data points as they were, so every result
\* harvested before is still there when the run is Aborted
AbortKeepsAggregate ==
  [][/\ Abort
        => /\ UNCHANGED AllButAbortRequest
           /\ abort_initiated' /\ tmp_abort_file' /\ ~abort_enabled'
     /\ (Tick /\ ReportsTerminated /\ ~Terminal(World))
        => /\ LET w == AbortCheck(World, <<>>)
              IN /\ w.run_state = "Aborted"
                 /\ w.finished_objects = finished_objects
                 /\ w.img_list = img_list
                 /\ w.new_images = new_images
                 /\ w.nref_list = nref_list
                 /\ w.res_list = res_list
                 /\ w.obj_counter = obj_counter
           /\ Len(finished_objects') >= Len(finished_objects)
           /\ SubSeq(finished_objects', 1, Len(finished_objects))
                = finished_objects]_vars

\* an abort confirmed with one of two results harvested
AbortKeepsWitness ==
  /\ run_state = "Aborted" /\ ~timer
  /\ abort_initiated /\ run_aborted
  /\ Len(img_list) = 2
  /\ Len(finished_objects) = 1 /\ obj_counter = 1
  /\ nref_list[finished_objects[1].img_index] = finished_objects[1].strong

\* C30: no dispatch while an abort is pending.  Between the abort request
\* and its confirmation no tick dispatches a batch
NoDispatchWhileAbortPending ==
  [][(Tick /\ abort_initiated /\ ~Liveness(World))
       => submitted' = submitted /\ queue' = queue]_vars

\* C31: no stale idle timer.  Whenever a batch is dispatched (by run, by a
\* monitor-mode extension or by resume) the recorded start of the idle period,
\* timeout_start, is unset
NoStaleIdleTimer ==
  [][submitted' # submitted => timeout_start' = None]_vars

\* C32: after every dispatch (run, monitor extension, resume) the metric
\* arrays have exactly one slot per item: nref_list, res_list and img_list
\* have the same length and every ordinal of img_list indexes a slot
MetricArraysAligned ==
  [][submitted' # submitted =>
       /\ Len(nref_list') = Len(img_list')
       /\ Len(res_list') = Len(img_list')
       /\ \A i \in DOMAIN img_list' : img_list'[i][1] \in DOMAIN nref_list']_vars

\* C33: resume clears the abort signal before it dispatches again.  After
\* onResume neither sentinel file exists and abort_initiated and run_aborted
\* are reset, and a poll tick that finds no abort request confirms no abort
ResumeClearsAbortSignal ==
  [][/\ Resume => /\ ~tmp_abort_file' /\ ~tmp_aborted_file'
                  /\ ~abort_initiated' /\ ~run_aborted'
     /\ (Tick /\ ~abort_initiated) =>
           /\ ~run_aborted'
           /\ run_state' = "Aborted" => run_state = "Aborted"]_vars

\* a resumed batch has been polled to its end without a second abort request
ResumedRunWitness ==
  /\ n_abort = 1 /\ Len(submitted) = 2 /\ state = "resume"
  /\ ~abort_initiated /\ ~tmp_abort_file
  /\ run_state = "Finished"

\* C34: the external driver can always write its done-marker.  Whenever a
\* driver returns from its worker pool and creates finish.cfg, the tmp
\* directory exists
DriverCanWriteMarker ==
  [][DriverEnds => tmp_base]_vars

\* some dispatched item has no harvestable result: no readable result object
\* with status "final" exists for it
HasDeadItem ==
  \E k \in DOMAIN img_list :
    ~\E o \in obj_files :
       o.raw_img = img_list[k][3] /\ o.readable /\ IsFinal(o)

\* C35: the polling loop does not run forever on a dead batch.  Without
\* monitor mode and without an abort, once every worker and driver has ended
\* while some dispatched item has no harvestable result, the coordinator
\* eventually stops polling (unless the user then aborts or switches monitor
\* mode on).
DeadBatchEnds ==
  (run_state = "Dispatching" /\ timer /\ queue = {} /\ drivers = {}
     /\ HasDeadItem /\ ~monitor_mode /\ ~abort_initiated /\ n_abort = 0)
    ~> (~timer \/ abort_initiated \/ monitor_mode)

\* C36: Abort and Resume are never both available.  In every state at most
\* one of the two tools is enabled, Resume is not enabled while the poll
\* timer runs, and Resume becomes enabled only in a tick that confirms a
\* requested abort or when an aborted or unknown run is loaded
AbortResumeExclusive ==
  /\ [](~(abort_enabled /\ resume_enabled) /\ (resume_enabled => ~timer))
  /\ [][(resume_enabled' /\ ~resume_enabled) =>
          \/ Tick /\ abort_initiated /\ run_aborted'
          \/ Recover /\ state' \in {"aborted", "unknown"}]_vars

\* a resumed batch is being polled: Abort is available and Resume is not
ResumedPollingWitness ==
  /\ n_abort = 1 /\ state = "resume" /\ timer /\ queue # {}
  /\ abort_enabled /\ ~resume_enabled

\* C37: failed initialization starts nothing.  A run whose input enumeration
\* is empty fails to initialize; a failed initialization records
\* good_to_go = False and changes nothing else, so no batch is dispatched and
\* the poll timer is never started
FailedInitStartsNothing ==
  /\ [](good_to_go = "no" =>
          /\ submitted = <<>> /\ queue = {} /\ drivers = {}
          /\ ~timer /\ run_state = "Init" /\ img_list = <<>>)
  /\ [][Run => /\ Len(input_list) = 0 => good_to_go' = "no"
               /\ good_to_go' = "no" =>
                     [World EXCEPT !.good_to_go = "no"]
                       = [World EXCEPT !.good_to_go = "no"]']_vars

\* initialization has failed on an empty input enumeration
FailedInitWitness ==
  good_to_go = "no" /\ Len(input_list) = 0 /\ ~timer

\* C38: in the event-driven coordinator results delivered after an abort
\* request are discarded.  A OneDone event handled while the abort sentinel
\* exists changes neither objects_in_progress nor nref_list and res_list, and
\* an AllDone event handled while it exists stops the timer and ends the run
\* as aborted, with no final analysis
LateResultsDiscarded ==
  [][(EvDeliver /\ tmp_abort_file) =>
       IF Head(events).type = "OneDone"
       THEN UNCHANGED <<objects_in_progress, nref_list, res_list>>
       ELSE /\ ~timer' /\ run_state' = "Aborted"
            /\ UNCHANGED final_objects]_vars

\* an aborted run: a result was dropped and the all-done event ended the run
LateResultWitness ==
  /\ run_state = "Aborted" /\ tmp_abort_file /\ ~timer
  /\ events = <<>> /\ queue = {}
  /\ Len(objects_in_progress) < Len(img_list)
  /\ final_objects = <<>>

\* C39: finalization happens at most once per run end.  In every reachable
\* state, whichever handler runs next (a poll tick, Resume, or recover on a
\* fresh window) carries out the end-of-run actions of finish_process at most
\* once
FinalizedOnce ==
  /\ timer =>
       \A d \in 1..MaxStep, order \in Perms(NewObjectFiles(World)) :
         onTimer(World, clock + d, order).finalizations <= 1
  /\ resume_enabled =>
       \A order \in Perms(NewObjectFiles(World)) :
         onResume(World, order).finalizations <= 1
  /\ good_to_go = "unset" =>
       \A status \in {"finished", "aborted", "unknown"},
          order \in Perms(NewObjectFiles(World)) :
         recover(World, status, order).finalizations <= 1

\* the run numbers of the numeric sub-directories of a folder
RunNumbers(folder) ==
  {IntValue(d) : d \in {e \in folder.listdir : check_dirname(e)}}

\* C40: each new run gets a fresh numbered run directory.  Whatever numeric
\* sub-directories the base folder holds, the path chosen for a new run does
\* not exist yet and its number is one more than every existing number
FreshRunDirectory ==
  [][NewRunDir =>
       /\ new_path' \notin path.listdir
       /\ \A n \in RunNumbers(path) : IntValue(new_path') > n]_vars

TypeOK ==
  /\ int_base \subseteq {"init.cfg", "iter.cfg"}
  /\ state \in {"process", "new images", "resume", "finished", "aborted",
                "unknown"}
  /\ drivers \subseteq DOMAIN submitted
  /\ finish_cfg \subseteq DOMAIN submitted
  /\ obj_counter \in 0..MaxInput
  /\ clock \in 0..MaxClock
  /\ run_state \in {"Init", "Dispatching", "Finished", "Aborted"}

====
